---- MODULE Spec2Model ----
(***************************************************************************)
(* Model of lambda_function.py: a scheduled job that images every EC2      *)
(* instance tagged Backup=Yes, tags the image with a DeleteOn date, and    *)
(* deregisters the images whose DeleteOn has passed together with the      *)
(* snapshots that name them.                                               *)
(*                                                                         *)
(* A Python str is a sequence of one-character strings, so that find(),    *)
(* int(), strftime() and the ordering of strs are computed, not assumed.   *)
(* Dictionary keys and tag keys, which the code only tests for equality,   *)
(* are TLA+ strings.  The provider (EC2) is the environment: its state is  *)
(* fleet, images and snapshots, and every call to it may fail.             *)
(***************************************************************************)
EXTENDS Integers, Sequences, FiniteSets, TLC

VARIABLES
    fleet,            \* the account's instances: <<[InstanceId, Tags]>>
    images,           \* the account's images: <<[id, hasTags, tags, source]>>
    snapshots,        \* all snapshots: <<[SnapshotId, Description, mine]>>
    clock,            \* wall clock: [day |-> proleptic ordinal, sec |-> second of the day]
    ticks,            \* how often the clock has advanced
    pyMajor,          \* major version of the interpreter the function runs on
    runs,             \* invocations of lambda_handler so far
    pc,               \* position of the running invocation
    raised,           \* the exception that ended the invocation: [exc, at]
    instances_list,   \* create_backup_amis: the instances enumerated
    i,                \* create_backup_amis: loop position in instances_list
    ami,              \* create_backup_amis: ImageId returned by create_ami
    retention_days,   \* create_backup_amis: retention of the instance in hand
    amis,             \* get_list_of_images_to_deregister: the images enumerated
    j,                \* get_list_of_images_to_deregister: loop position in amis
    deletion_date,    \* get_list_of_images_to_deregister: the local of that name
    amis_to_delete,   \* the deletion list
    k,                \* deregister_amis: loop position in amis_to_delete
    nextId,           \* provider: number of the next image id
    calls,            \* provider calls of this invocation: <<[op, target, value, ok, noReboot]>>
    todays            \* todays_date read for each image evaluated so far

vars == <<fleet, images, snapshots, clock, ticks, pyMajor, runs, pc, raised,
          instances_list, i, ami, retention_days, amis, j, deletion_date,
          amis_to_delete, k, nextId, calls, todays>>

-----------------------------------------------------------------------------
(* Bounds of the model *)

MaxRuns == 2
MaxTicks == 2
MaxImages == 3

(* Constants of the program *)

DefaultRetention == 7
MaxResults == 1000

-----------------------------------------------------------------------------
(* Python values and strs *)

Str(cs) == [t |-> "str", v |-> cs]
PyNone == [t |-> "NoneType", v |-> <<>>]
PyFalse == [t |-> "bool", v |-> <<>>]
Unbound == [t |-> "unbound", v |-> <<>>]

Digits == <<"0", "1", "2", "3", "4", "5", "6", "7", "8", "9">>

\* The characters the model uses, in code point order.
Chars == <<" ", "-">> \o Digits \o <<"N", "Y", "a", "b", "d", "e", "f", "g",
           "i", "l", "m", "n", "o", "r", "s", "u", "w", "x">>

Ord(c) == CHOOSE n \in 1..Len(Chars) : Chars[n] = c

IsDigit(c) == \E n \in 1..10 : Digits[n] = c

DigitVal(c) == (CHOOSE n \in 1..10 : Digits[n] = c) - 1

DigitChar(n) == Digits[n + 1]

Pad2(n) == <<DigitChar((n \div 10) % 10), DigitChar(n % 10)>>

Pad4(n) == Pad2(n \div 100) \o Pad2(n % 100)

RECURSIVE DecValue(_)
DecValue(cs) ==
    IF cs = <<>> THEN 0
    ELSE 10 * DecValue(SubSeq(cs, 1, Len(cs) - 1)) + DigitVal(cs[Len(cs)])

AllDigits(cs) == Len(cs) > 0 /\ \A n \in 1..Len(cs) : IsDigit(cs[n])

\* int(str): an optional sign and decimal digits, else ValueError.
PyInt(cs) ==
    IF AllDigits(cs) THEN [ok |-> TRUE, val |-> DecValue(cs)]
    ELSE IF Len(cs) > 1 /\ cs[1] = "-" /\ AllDigits(Tail(cs))
    THEN [ok |-> TRUE, val |-> 0 - DecValue(Tail(cs))]
    ELSE [ok |-> FALSE, val |-> 0]

\* str <= str: lexicographic by code point.
RECURSIVE StrLE(_, _)
StrLE(a, b) ==
    IF a = <<>> THEN TRUE
    ELSE IF b = <<>> THEN FALSE
    ELSE IF Head(a) = Head(b) THEN StrLE(Tail(a), Tail(b))
    ELSE Ord(Head(a)) < Ord(Head(b))

\* LessEq with < in place of <=.
LessEqStrict(x, y, py) ==
    IF x.t = "unbound" THEN "UnboundLocalError"
    ELSE IF x.t = "str" THEN (IF x.v # y /\ StrLE(x.v, y) THEN "True" ELSE "False")
    ELSE IF py = 2 THEN "True"
    ELSE "TypeError"

\* x <= y with y a str.  A name never assigned raises UnboundLocalError; a
\* bool or None against a str raises TypeError on Python 3 and is True on
\* Python 2, which orders None and numbers before every str.
LessEq(x, y, py) ==
    IF x.t = "unbound" THEN "UnboundLocalError"
    ELSE IF x.t = "str" THEN (IF StrLE(x.v, y) THEN "True" ELSE "False")
    ELSE IF py = 2 THEN "True"
    ELSE "TypeError"

MatchesAt(hay, needle, n) ==
    /\ n + Len(needle) <= Len(hay)
    /\ SubSeq(hay, n + 1, n + Len(needle)) = needle

RECURSIVE FindFrom(_, _, _)
FindFrom(hay, needle, n) ==
    IF n + Len(needle) > Len(hay) THEN -1
    ELSE IF MatchesAt(hay, needle, n) THEN n
    ELSE FindFrom(hay, needle, n + 1)

\* str.find: the lowest index (from 0) where needle occurs, else -1.
Find(hay, needle) == FindFrom(hay, needle, 0)

-----------------------------------------------------------------------------
(* datetime: proleptic Gregorian ordinals, date + timedelta, strftime *)

DI400Y == 146097
DI100Y == 36524
DI4Y == 1461

DaysBeforeMonth == <<0, 31, 59, 90, 120, 151, 181, 212, 243, 273, 304, 334>>
DaysInMonth == <<31, 28, 31, 30, 31, 30, 31, 31, 30, 31, 30, 31>>

\* date.fromordinal
Ord2YMD(ordinal) ==
    LET n0 == ordinal - 1
        n400 == n0 \div DI400Y
        n1r == n0 % DI400Y
        n100 == n1r \div DI100Y
        n2r == n1r % DI100Y
        n4 == n2r \div DI4Y
        n3r == n2r % DI4Y
        n1 == n3r \div 365
        n == n3r % 365
        year == n400 * 400 + 1 + n100 * 100 + n4 * 4 + n1
        leap == n1 = 3 /\ (n4 # 24 \/ n100 = 3)
        month0 == (n + 50) \div 32
        before0 == DaysBeforeMonth[month0] + (IF month0 > 2 /\ leap THEN 1 ELSE 0)
        month == IF before0 > n THEN month0 - 1 ELSE month0
        before == IF before0 > n
                  THEN before0 - (DaysInMonth[month] + (IF month = 2 /\ leap THEN 1 ELSE 0))
                  ELSE before0
    IN  IF n1 = 4 \/ n100 = 4
        THEN [y |-> year - 1, m |-> 12, d |-> 31]
        ELSE [y |-> year, m |-> month, d |-> n - before + 1]

\* date.min and date.max as ordinals: 0001-01-01 and 9999-12-31.
MinOrdinal == 1
MaxOrdinal == 3652059

\* date + timedelta raises OverflowError outside date.min..date.max.
DateInRange(ordinal) == MinOrdinal <= ordinal /\ ordinal <= MaxOrdinal

\* date.strftime('%Y%m%d%H%M%S'): a date has no time of day.
StrftimeDate(ordinal) ==
    LET ymd == Ord2YMD(ordinal)
    IN  Pad4(ymd.y) \o Pad2(ymd.m) \o Pad2(ymd.d) \o Pad2(0) \o Pad2(0) \o Pad2(0)

\* datetime.now().strftime('%Y%m%d%H%M%S')
StrftimeNow(c) ==
    LET ymd == Ord2YMD(c.day)
    IN  Pad4(ymd.y) \o Pad2(ymd.m) \o Pad2(ymd.d) \o Pad2(c.sec \div 3600)
            \o Pad2((c.sec % 3600) \div 60) \o Pad2(c.sec % 60)

-----------------------------------------------------------------------------
(* The provider's resources *)

cYes == <<"Y", "e", "s">>
cNo == <<"N", "o">>
cFor == <<"f", "o", "r", " ">>

ImageId(n) == <<"a", "m", "i", "-">> \o Pad2(n)
SnapshotId(n) == <<"s", "n", "a", "p", "-">> \o Pad2(n)
InstanceId(n) == <<"i", "-">> \o Pad2(n)

Tag(key, cs) == [Key |-> key, Value |-> Str(cs)]

\* The instances an account may hold, in the order the provider lists them.
Catalogue == <<
    [InstanceId |-> InstanceId(1),
     Tags |-> <<Tag("Backup", cYes), Tag("Retention", <<"3", "0">>)>>],
    [InstanceId |-> InstanceId(2),
     Tags |-> <<Tag("Backup", cNo), Tag("Retention", <<"1">>)>>],
    [InstanceId |-> InstanceId(3),
     Tags |-> <<Tag("Retention", <<"1", "w">>), Tag("Backup", cYes)>>],
    [InstanceId |-> InstanceId(4),
     Tags |-> <<Tag("Name", <<"w", "e", "b">>), Tag("Backup", cYes)>>],
    [InstanceId |-> InstanceId(5),
     Tags |-> <<Tag("Name", <<"d", "b">>)>>],
    [InstanceId |-> InstanceId(6),
     Tags |-> <<Tag("Backup", cYes), Tag("Retention", <<"9", "9", "9", "9", "9", "9", "9">>)>>] >>

\* The fleets of the model: the two instances that are not to be backed up,
\* and any of the four that are.
Fleets ==
    { SelectSeq(Catalogue, LAMBDA inst :
          inst.InstanceId \in keep \cup {InstanceId(2), InstanceId(5)}) :
        keep \in SUBSET {InstanceId(1), InstanceId(3), InstanceId(4), InstanceId(6)} }

StartDays == {738944, 738885}      \* 2024-02-28 and 2023-12-31

Image(n, has, tags, source) ==
    [id |-> ImageId(n), hasTags |-> has, tags |-> tags, source |-> source]

\* Images left by earlier runs (DeleteOn yesterday, today, tomorrow) and one
\* image that is not a backup.
InitialImages(day) == <<
    Image(1, TRUE, <<Tag("DeleteOn", StrftimeDate(day - 1))>>, InstanceId(1)),
    Image(2, TRUE, <<Tag("Name", <<"w", "e", "b">>), Tag("DeleteOn", StrftimeDate(day))>>,
          InstanceId(4)),
    Image(3, TRUE, <<Tag("DeleteOn", StrftimeDate(day + 1))>>, InstanceId(1)),
    Image(4, TRUE, <<Tag("Name", <<"g", "o", "l", "d">>)>>, <<>>) >>

Snapshot(n, description, mine) ==
    [SnapshotId |-> SnapshotId(n), Description |-> description, mine |-> mine]

InitialSnapshots == <<
    Snapshot(1, cFor \o ImageId(1), TRUE),
    Snapshot(2, ImageId(1) \o <<" ", "x">>, TRUE),
    Snapshot(3, cFor \o ImageId(3), TRUE),
    Snapshot(4, cFor \o ImageId(1), FALSE) >>

HasTagKey(tags, key) == \E n \in 1..Len(tags) : tags[n].Key = key

\* describe_instances(Filters tag:Backup = Yes): one reservation per instance.
DescribeInstances(f) ==
    LET hit == SelectSeq(f, LAMBDA inst :
                   \E n \in 1..Len(inst.Tags) :
                       inst.Tags[n].Key = "Backup" /\ inst.Tags[n].Value = Str(cYes))
    IN  [n \in 1..Len(hit) |-> [Instances |-> <<hit[n]>>]]

\* DescribeImages with the tag-key filter left out.
DescribeImagesUnfiltered(imgs) == imgs

\* images.filter(Owners self, tag-key DeleteOn)
DescribeImages(imgs) ==
    SelectSeq(imgs, LAMBDA im : im.hasTags /\ HasTagKey(im.tags, "DeleteOn"))

\* describe_snapshots(MaxResults, OwnerIds): no pagination.
DescribeSnapshots(all) ==
    LET own == SelectSeq(all, LAMBDA sn : sn.mine)
    IN  SubSeq(own, 1, IF Len(own) < MaxResults THEN Len(own) ELSE MaxResults)

\* create_tags: sets the key on the resource, replacing an earlier value.
SetTag(im, tag) ==
    [im EXCEPT !.hasTags = TRUE,
               !.tags = SelectSeq(im.tags, LAMBDA t : t.Key # tag.Key) \o <<tag>>]

-----------------------------------------------------------------------------
(* The functions of lambda_function.py *)

RECURSIVE flatten_list(_)
flatten_list(list_to_flatten) ==
    IF list_to_flatten = <<>> THEN <<>>
    ELSE Head(list_to_flatten) \o flatten_list(Tail(list_to_flatten))

\* get_instances_by_tag_keys with the tag:Backup filter left out.
get_instances_unfiltered(f) == f

get_instances_by_tag_keys(f) ==
    LET reservations_list == DescribeInstances(f)
    IN  flatten_list([n \in 1..Len(reservations_list) |-> reservations_list[n].Instances])

\* [exc, val]: int() of every Retention tag, the first one wins, 7 without one.
get_instance_retention_days(instance) ==
    LET found == SelectSeq(instance.Tags, LAMBDA tag : tag.Key = "Retention")
    IN  IF \E n \in 1..Len(found) : ~PyInt(found[n].Value.v).ok
        THEN [exc |-> "ValueError", val |-> 0]
        ELSE IF found = <<>> THEN [exc |-> "none", val |-> DefaultRetention]
        ELSE [exc |-> "none", val |-> PyInt(found[1].Value.v).val]

\* deregister_on with the instance's retention ignored.
deregister_on_default(today, days) == StrftimeDate(today + DefaultRetention)

\* create_ami_tags: the value of the DeleteOn tag.
deregister_on(today, days) == StrftimeDate(today + days)

\* get_list_of_images_to_deregister, lines 149-154: deletion_date after the try.
DeletionDate(image, previous) ==
    IF image.hasTags
    THEN LET found == SelectSeq(image.tags, LAMBDA t : t.Key = "DeleteOn")
         IN  IF found = <<>> THEN PyFalse ELSE found[1].Value
    ELSE previous

\* delete_snapshots, line 175
SnapshotMatches(snapshot, ami_id) == Find(snapshot.Description, ami_id) > 0

-----------------------------------------------------------------------------
(* The run: lambda_handler, one action per provider call or loop step *)

Range(seq) == { seq[n] : n \in 1..Len(seq) }

NoException == [exc |-> "none", at |-> "none"]

Running == pc \notin {"idle", "done", "aborted"}

\* An uncaught exception ends the invocation.
Raise(exc, at) ==
    /\ pc' = "aborted"
    /\ raised' = [exc |-> exc, at |-> at]

Call(op, target, value, ok) ==
    calls' = Append(calls, [op |-> op, target |-> target, value |-> value,
                            ok |-> ok, noReboot |-> op = "create_image"])

provider == <<fleet, images, snapshots, nextId>>
backupLocals == <<instances_list, i, ami, retention_days>>
expiryLocals == <<amis, j, deletion_date, amis_to_delete, k, todays>>
world == <<clock, ticks, pyMajor, runs>>

Init ==
    /\ fleet \in Fleets
    /\ \E day \in StartDays :
          /\ clock = [day |-> day, sec |-> 0]
          /\ images = InitialImages(day)
    /\ snapshots = InitialSnapshots
    /\ nextId = Len(images) + 1
    /\ ticks = 0
    /\ pyMajor \in {2, 3}
    /\ runs = 0
    /\ pc = "idle"
    /\ raised = NoException
    /\ instances_list = <<>>
    /\ i = 1
    /\ ami = <<>>
    /\ retention_days = 0
    /\ amis = <<>>
    /\ j = 1
    /\ deletion_date = Unbound
    /\ amis_to_delete = <<>>
    /\ k = 1
    /\ calls = <<>>
    /\ todays = <<>>

\* Where the run reads the clock next (lines 104 and 156).
\* Time that passes elsewhere is time that has passed by then.
ReadsClock == pc \in {"create_ami_tags", "get_list_of_images_to_deregister"}

\* Time passes: to 12:34:56 of the day, then to midnight of the next day.
Tick ==
    /\ ReadsClock
    /\ ticks < MaxTicks
    /\ ticks' = ticks + 1
    /\ clock' = IF clock.sec = 0
                THEN [clock EXCEPT !.sec = 45296]
                ELSE [day |-> clock.day + 1, sec |-> 0]
    /\ UNCHANGED <<provider, backupLocals, expiryLocals, pyMajor, runs, pc, raised, calls>>

\* The scheduler invokes the function; every local starts afresh.
lambda_handler ==
    /\ ~Running
    /\ runs < MaxRuns
    /\ runs' = runs + 1
    /\ pc' = "create_backup_amis"
    /\ raised' = NoException
    /\ instances_list' = <<>>
    /\ i' = 1
    /\ ami' = <<>>
    /\ retention_days' = 0
    /\ amis' = <<>>
    /\ j' = 1
    /\ deletion_date' = Unbound
    /\ amis_to_delete' = <<>>
    /\ k' = 1
    /\ calls' = <<>>
    /\ todays' = <<>>
    /\ UNCHANGED <<provider, clock, ticks, pyMajor>>

\* create_backup_amis, line 119: enumerate the instances to back up.
create_backup_amis ==
    /\ pc = "create_backup_amis"
    /\ \E ok \in BOOLEAN :
          /\ Call("describe_instances", <<>>, <<>>, ok)
          /\ IF ok
             THEN LET list == get_instances_by_tag_keys(fleet)
                  IN  /\ instances_list' = list
                      /\ pc' = IF list = <<>> THEN "deregister_backup_amis" ELSE "create_ami"
                      /\ UNCHANGED raised
             ELSE /\ Raise("ClientError", "describe_instances")
                  /\ UNCHANGED instances_list
    /\ UNCHANGED <<provider, world, expiryLocals, i, ami, retention_days>>

\* create_backup_amis, lines 122-125: retention of the instance, then its image.
\* The provider registers the image untagged, with a snapshot that names it.
create_ami ==
    /\ pc = "create_ami"
    /\ LET instance == instances_list[i]
           days == get_instance_retention_days(instance)
           image_id == ImageId(nextId)
       IN  IF days.exc # "none"
           THEN /\ Raise(days.exc, "get_instance_retention_days")
                /\ UNCHANGED <<provider, calls, ami, retention_days>>
           ELSE \E ok \in BOOLEAN :
                  /\ Call("create_image", instance.InstanceId, image_id, ok)
                  /\ IF ok
                     THEN /\ images' = Append(images,
                                 Image(nextId, FALSE, <<>>, instance.InstanceId))
                          /\ snapshots' = Append(snapshots,
                                 Snapshot(nextId + 10, cFor \o image_id, TRUE))
                          /\ nextId' = nextId + 1
                          /\ ami' = image_id
                          /\ retention_days' = days.val
                          /\ pc' = "create_ami_tags"
                          /\ UNCHANGED <<fleet, raised>>
                     ELSE /\ Raise("ClientError", "create_image")
                          /\ UNCHANGED <<provider, ami, retention_days>>
    /\ UNCHANGED <<world, expiryLocals, instances_list, i>>

\* create_backup_amis, line 126: the DeleteOn tag, then the next instance.
create_ami_tags ==
    /\ pc = "create_ami_tags"
    /\ LET value == deregister_on(clock.day, retention_days)
       IN  IF ~DateInRange(clock.day + retention_days)
           THEN /\ Raise("OverflowError", "create_ami_tags")
                /\ UNCHANGED <<images, i, calls>>
           ELSE \E ok \in BOOLEAN :
                  /\ Call("create_tags", ami, value, ok)
                  /\ IF ok
                     THEN /\ images' = [n \in 1..Len(images) |->
                                 IF images[n].id = ami
                                 THEN SetTag(images[n], Tag("DeleteOn", value))
                                 ELSE images[n]]
                          /\ i' = i + 1
                          /\ pc' = IF i + 1 > Len(instances_list)
                                   THEN "deregister_backup_amis" ELSE "create_ami"
                          /\ UNCHANGED raised
                     ELSE /\ Raise("ClientError", "create_tags")
                          /\ UNCHANGED <<images, i>>
    /\ UNCHANGED <<fleet, snapshots, nextId, world, expiryLocals,
                   instances_list, ami, retention_days>>

\* deregister_backup_amis, lines 204-205: the images carrying a DeleteOn tag.
deregister_backup_amis ==
    /\ pc = "deregister_backup_amis"
    /\ \E ok \in BOOLEAN :
          /\ Call("describe_images", <<>>, <<>>, ok)
          /\ IF ok
             THEN /\ amis' = DescribeImages(images)
                  /\ pc' = "get_list_of_images_to_deregister"
                  /\ UNCHANGED raised
             ELSE /\ Raise("ClientError", "describe_images")
                  /\ UNCHANGED amis
    /\ UNCHANGED <<provider, world, backupLocals, j, deletion_date,
                   amis_to_delete, k, todays>>

\* get_list_of_images_to_deregister, lines 147-159: one turn of the loop.
get_list_of_images_to_deregister ==
    /\ pc = "get_list_of_images_to_deregister"
    /\ j <= Len(amis)
    /\ LET image == amis[j]
           date == DeletionDate(image, deletion_date)
           todays_date == StrftimeNow(clock)
           expired == LessEq(date, todays_date, pyMajor)
       IN  /\ deletion_date' = date
           /\ todays' = Append(todays, todays_date)
           /\ IF expired \in {"True", "False"}
              THEN /\ amis_to_delete' = IF expired = "True"
                                        THEN Append(amis_to_delete, image.id)
                                        ELSE amis_to_delete
                   /\ j' = j + 1
                   /\ UNCHANGED <<pc, raised>>
              ELSE /\ Raise(expired, "get_list_of_images_to_deregister")
                   /\ UNCHANGED <<amis_to_delete, j>>
    /\ UNCHANGED <<provider, world, backupLocals, amis, k, calls>>

\* Lines 161 and 205-208: the list is returned and handed to deregister_amis.
Returned == pc = "get_list_of_images_to_deregister" /\ j > Len(amis)

deregister_amis ==
    /\ Returned
    /\ pc' = IF amis_to_delete = <<>> THEN "done" ELSE "deregister_image"
    /\ UNCHANGED <<provider, world, backupLocals, expiryLocals, raised, calls>>

\* deregister_amis, lines 187-192: deregister the image in hand.
deregister_image ==
    /\ pc = "deregister_image"
    /\ LET id == amis_to_delete[k]
       IN  \E ok \in BOOLEAN :
              /\ Call("deregister_image", id, <<>>, ok)
              /\ IF ok
                 THEN /\ images' = SelectSeq(images, LAMBDA im : im.id # id)
                      /\ pc' = "delete_snapshots"
                      /\ UNCHANGED raised
                 ELSE /\ Raise("ClientError", "deregister_image")
                      /\ UNCHANGED images
    /\ UNCHANGED <<fleet, snapshots, nextId, world, backupLocals, expiryLocals>>

\* Where control goes after the last snapshot of the image in hand.
NextImage == IF k + 1 > Len(amis_to_delete) THEN "done" ELSE "deregister_image"

\* A call for each element of a list, all answered alike.
CallEach(op, list, ok) ==
    [n \in 1..Len(list) |-> [op |-> op, target |-> list[n].SnapshotId, value |-> <<>>,
                             ok |-> ok, noReboot |-> FALSE]]

\* delete_snapshots, lines 171-177: list the account's snapshots and delete
\* those that match the image in hand, until a call fails (failAt) or the list
\* ends (failAt = 0).
delete_snapshots ==
    /\ pc = "delete_snapshots"
    /\ LET id == amis_to_delete[k]
           listing(ok) == <<[op |-> "describe_snapshots", target |-> id, value |-> <<>>,
                             ok |-> ok, noReboot |-> FALSE]>>
       IN  \/ /\ calls' = calls \o listing(FALSE)
              /\ Raise("ClientError", "describe_snapshots")
              /\ UNCHANGED <<snapshots, k>>
           \/ \E hits \in {SelectSeq(DescribeSnapshots(snapshots),
                                     LAMBDA sn : SnapshotMatches(sn, id))} :
              \E failAt \in 0..Len(hits) :
              \E deleted \in {SubSeq(hits, 1, IF failAt = 0 THEN Len(hits) ELSE failAt - 1)} :
                     /\ snapshots' = SelectSeq(snapshots, LAMBDA sn : sn \notin Range(deleted))
                     /\ IF failAt = 0
                        THEN /\ calls' = calls \o listing(TRUE)
                                    \o CallEach("delete_snapshot", deleted, TRUE)
                             /\ pc' = NextImage
                             /\ k' = k + 1
                             /\ UNCHANGED raised
                        ELSE /\ calls' = calls \o listing(TRUE)
                                    \o CallEach("delete_snapshot", deleted, TRUE)
                                    \o CallEach("delete_snapshot", <<hits[failAt]>>, FALSE)
                             /\ Raise("ClientError", "delete_snapshot")
                             /\ UNCHANGED k
    /\ UNCHANGED <<fleet, images, nextId, world, backupLocals, amis, j,
                   deletion_date, amis_to_delete, todays>>

Next ==
    \/ Tick
    \/ lambda_handler
    \/ create_backup_amis
    \/ create_ami
    \/ create_ami_tags
    \/ deregister_backup_amis
    \/ get_list_of_images_to_deregister
    \/ deregister_amis
    \/ deregister_image
    \/ delete_snapshots

Spec == Init /\ [][Next]_vars

-----------------------------------------------------------------------------
(* get_list_of_images_to_deregister on its own: any list of images *)

\* What an image's tags may look like: none at all, no DeleteOn entry, a
\* DeleteOn entry without a Value, and DeleteOn yesterday, today and tomorrow.
TagShapes(day) == {
    [hasTags |-> FALSE, tags |-> <<>>],
    [hasTags |-> TRUE, tags |-> <<Tag("Name", <<"g", "o", "l", "d">>)>>],
    [hasTags |-> TRUE, tags |-> <<[Key |-> "DeleteOn", Value |-> PyNone]>>],
    [hasTags |-> TRUE, tags |-> <<Tag("DeleteOn", StrftimeDate(day - 1))>>],
    [hasTags |-> TRUE, tags |-> <<Tag("Name", <<"w", "e", "b">>),
                                   Tag("DeleteOn", StrftimeDate(day))>>],
    [hasTags |-> TRUE, tags |-> <<Tag("DeleteOn", StrftimeDate(day + 1))>>] }

ImageLists(day) ==
    UNION { { [n \in 1..len |-> Image(n, f[n].hasTags, f[n].tags, <<>>)] :
                f \in [1..len -> TagShapes(day)] } : len \in 0..MaxImages }

InitSelect ==
    /\ \E day \in StartDays :
          /\ clock = [day |-> day, sec |-> 0]
          /\ amis \in ImageLists(day)
    /\ images = amis
    /\ fleet = <<>>
    /\ snapshots = <<>>
    /\ nextId = Len(images) + 1
    /\ ticks = 0
    /\ pyMajor \in {2, 3}
    /\ runs = 1
    /\ pc = "get_list_of_images_to_deregister"
    /\ raised = NoException
    /\ instances_list = <<>>
    /\ i = 1
    /\ ami = <<>>
    /\ retention_days = 0
    /\ j = 1
    /\ deletion_date = Unbound
    /\ amis_to_delete = <<>>
    /\ k = 1
    /\ calls = <<>>
    /\ todays = <<>>

NextSelect ==
    \/ Tick
    \/ get_list_of_images_to_deregister

SpecSelect == InitSelect /\ [][NextSelect]_vars

-----------------------------------------------------------------------------
(* Vocabulary of the properties *)

InList(id) == \E n \in 1..Len(amis_to_delete) : amis_to_delete[n] = id

DeleteOnValues(tags) ==
    LET found == SelectSeq(tags, LAMBDA t : t.Key = "DeleteOn")
    IN  [n \in 1..Len(found) |-> found[n].Value]

\* The image carries a DeleteOn value that can be read: 14 digits.
Readable(image) ==
    /\ image.hasTags
    /\ DeleteOnValues(image.tags) # <<>>
    /\ DeleteOnValues(image.tags)[1].t = "str"
    /\ Len(DeleteOnValues(image.tags)[1].v) = 14
    /\ AllDigits(DeleteOnValues(image.tags)[1].v)

\* The image has tags, but no DeleteOn value to read.
Unreadable(image) ==
    /\ image.hasTags
    /\ \/ DeleteOnValues(image.tags) = <<>>
       \/ DeleteOnValues(image.tags)[1].t # "str"

\* A YYYYMMDDHHMMSS string as a date number and a time number.
Moment(cs) == [ymd |-> DecValue(SubSeq(cs, 1, 8)), hms |-> DecValue(SubSeq(cs, 9, 14))]

NotAfter(a, b) == a.ymd < b.ymd \/ (a.ymd = b.ymd /\ a.hms <= b.hms)

IsLeap(y) == y % 4 = 0 /\ (y % 100 # 0 \/ y % 400 = 0)

\* The ordinal of a calendar date, counted from the calendar itself.
YMD2Ord(y, m, d) ==
    LET before == (y - 1) * 365 + (y - 1) \div 4 - (y - 1) \div 100 + (y - 1) \div 400
        inYear == DaysBeforeMonth[m] + (IF m > 2 /\ IsLeap(y) THEN 1 ELSE 0)
    IN  before + inYear + d

DateOrdinal(cs) ==
    YMD2Ord(DecValue(SubSeq(cs, 1, 4)), DecValue(SubSeq(cs, 5, 6)), DecValue(SubSeq(cs, 7, 8)))

BackupIsYes(inst) ==
    \E n \in 1..Len(inst.Tags) : inst.Tags[n].Key = "Backup" /\ inst.Tags[n].Value.v = cYes

RetentionValues(inst) ==
    LET found == SelectSeq(inst.Tags, LAMBDA t : t.Key = "Retention")
    IN  [n \in 1..Len(found) |-> found[n].Value.v]

\* r of the instance: its Retention tag as an integer, 7 without the tag.
ExpectedRetention(inst) ==
    IF RetentionValues(inst) = <<>> THEN 7 ELSE PyInt(RetentionValues(inst)[1]).val

InstanceOf(id) == CHOOSE inst \in Range(Catalogue) : inst.InstanceId = id

CallsOf(op) == SelectSeq(calls, LAMBDA c : c.op = op)

NoProviderFailure == \A n \in 1..Len(calls) : calls[n].ok

BackupOver == pc \notin {"idle", "create_backup_amis", "create_ami", "create_ami_tags"}

RunOver == pc \in {"done", "aborted"}

-----------------------------------------------------------------------------
(* Properties *)

C2_DeleteOnValue ==
    [][\A after \in Range(images') :
          (\E before \in Range(images) : before.id = after.id /\ before.tags # after.tags)
          => LET values == DeleteOnValues(after.tags)
             IN  /\ Len(values) = 1
                 /\ values[1].t = "str"
                 /\ Len(values[1].v) = 14
                 /\ AllDigits(values[1].v)
                 /\ SubSeq(values[1].v, 9, 14) = <<"0", "0", "0", "0", "0", "0">>
                 /\ DateOrdinal(values[1].v)
                        = clock.day + ExpectedRetention(InstanceOf(after.source))]_vars

\* C2 witness: this run has tagged an image of the instance with Retention 30
\* and an image of the instance without a Retention tag.
C2_Witness ==
    /\ \E c \in Range(CallsOf("create_image")) : c.ok /\ c.target = InstanceId(1)
    /\ \E c \in Range(CallsOf("create_image")) : c.ok /\ c.target = InstanceId(4)
    /\ \A c \in Range(CallsOf("create_image")) :
          \E im \in Range(images) : im.id = c.value /\ DeleteOnValues(im.tags) # <<>>
    /\ ticks > 0

\* C3: once the instance in hand is finished with, whatever failed, every image
\* that create_ami created has exactly one DeleteOn tag.
C3_ExactlyOneDeleteOn ==
    pc # "create_ami_tags" =>
        \A im \in Range(images) :
            im.source # <<>> => Len(DeleteOnValues(im.tags)) = 1

CreateImageCalls(inst) ==
    SelectSeq(calls, LAMBDA c : c.op = "create_image" /\ c.target = inst.InstanceId)

TagWrites(inst) ==
    SelectSeq(calls, LAMBDA c :
        /\ c.op = "create_tags"
        /\ \E n \in 1..Len(CreateImageCalls(inst)) : CreateImageCalls(inst)[n].value = c.target)

Coverage ==
    \A inst \in Range(fleet) :
        /\ Len(CreateImageCalls(inst)) = (IF BackupIsYes(inst) THEN 1 ELSE 0)
        /\ Len(TagWrites(inst)) = (IF BackupIsYes(inst) THEN 1 ELSE 0)
        /\ \A c \in Range(CreateImageCalls(inst)) : c.noReboot

RetentionsAreUsable ==
    \A inst \in Range(fleet) :
        BackupIsYes(inst) =>
            /\ \A n \in 1..Len(RetentionValues(inst)) : PyInt(RetentionValues(inst)[n]).ok
            /\ clock.day + ExpectedRetention(inst) <= MaxOrdinal

C5_SnapshotCleanup ==
    pc = "done" =>
        /\ \A n \in 1..Len(calls) :
              calls[n].op = "describe_snapshots" =>
                  /\ n > 1
                  /\ calls[n - 1].op = "deregister_image"
                  /\ calls[n - 1].target = calls[n].target
        /\ \A id \in Range(amis_to_delete), sn \in Range(snapshots) :
              sn.mine => Find(sn.Description, id) = -1

\* C6: when a run is over and the instances were enumerated, every enumerated
\* instance with a usable Retention has had its create-image request and the
\* Expiry Phase has been entered.
C6_BackupIsolation ==
    (RunOver /\ \E c \in Range(CallsOf("describe_instances")) : c.ok) =>
        /\ \A inst \in Range(instances_list) :
              get_instance_retention_days(inst).exc = "none"
                  => CreateImageCalls(inst) # <<>>
        /\ CallsOf("describe_images") # <<>>

\* C7: when a run is over and the deletion list was returned, every image of
\* the list has had its deregistration requested.
C7_ExpiryIsolation ==
    (RunOver /\ j > Len(amis) /\ \E c \in Range(CallsOf("describe_images")) : c.ok) =>
        \A id \in Range(amis_to_delete) :
            \E c \in Range(CallsOf("deregister_image")) : c.target = id

\* C8: an image whose DeleteOn value cannot be read is not put in the list and
\* raises nothing: the loop goes on to the images after it.
C8_UnreadableSkipped ==
    /\ \A n \in 1..(j - 1) : Unreadable(amis[n]) => ~InList(amis[n].id)
    /\ (pc = "aborted" /\ j <= Len(amis)) => ~Unreadable(amis[j])

Ids(imgs) == { im.id : im \in Range(imgs) }

C10_IndependentSelection ==
    \A n \in 1..(j - 1) : ~amis[n].hasTags => ~InList(amis[n].id)

====
